---- MODULE Spec2Model ----
(***************************************************************************)
(* A model of the ADIF record library of AB3GY (adif.py, adif_iter.py):    *)
(* the specifier scanner and record parser (adif.parse), the record reader *)
(* (adif.next_record), the serializer (adif.get_adif), the file iterator   *)
(* (adif_iter) and the matcher (adifMerge).                                *)
(*                                                                         *)
(* Text is modelled as a sequence of one-character strings, so that the    *)
(* regular expressions, slices and conversions of the code are computed    *)
(* character by character.  A record (a Python dict of strings) is a       *)
(* function from tags to values, both character sequences.                 *)
(***************************************************************************)
EXTENDS Integers, Sequences, FiniteSets, TLC

VARIABLES
    stream,     \* the text file: the sequence of lines the file object yields
    fpos,       \* number of lines already read from the file object
    line,       \* adif._line: remainder of the text read so far
    QSO,        \* adif.QSO: the current record
    HEADER,     \* adif.HEADER: the header record
    EOH,        \* adif._EOH: end of header seen by the last parse
    ret,        \* result of the last call: "none", "True", "False" or "raise"
    nTrue,      \* number of next_record calls that returned True
    last,       \* observations of the last call (what it saw and did)
    fileobj,    \* adif_iter.fileobj: "None" or "open"
    closed,     \* the close operation of the opened stream has been invoked
    outcome,    \* result of the last iterator step: "none", "yield", "stop", "error"
    buffer,     \* the text handed to parse / produced by get_adif
    found,      \* the specifiers found by the last parse, in order
    input,      \* the specifiers the text handed to parse was written from
    record1,    \* first record handed to the matcher / the record to serialize
    record2,    \* second record handed to the matcher, as it was passed
    update_fields,  \* the update_fields argument of the last merge
    into_record,    \* the into_record dictionary after the last merge
    merged_record,  \* the record the last merge returned
    pc          \* position of the driving program

vars == <<stream, fpos, line, QSO, HEADER, EOH, ret, nTrue, last, fileobj,
          closed, outcome, buffer, found, input, record1, record2,
          update_fields, into_record, merged_record, pc>>

----------------------------------------------------------------------------
(* Characters and strings.                                                 *)

LowerChars == <<"a","b","c","d","e","f","g","h","i","j","k","l","m",
                "n","o","p","q","r","s","t","u","v","w","x","y","z">>
UpperChars == <<"A","B","C","D","E","F","G","H","I","J","K","L","M",
                "N","O","P","Q","R","S","T","U","V","W","X","Y","Z">>
DigitChars == <<"0","1","2","3","4","5","6","7","8","9">>

Range(f) == {f[i] : i \in DOMAIN f}

\* Code-point order of the characters the model uses (ASCII order).
AsciiOrder == <<"\n", "\r", " ", ".">> \o DigitChars \o <<":", "<", ">">>
              \o UpperChars \o <<"_">> \o LowerChars

Ord(c) == CHOOSE i \in DOMAIN AsciiOrder : AsciiOrder[i] = c

LowerSet == Range(LowerChars)
DigitSet == Range(DigitChars)
WordSet  == Range(LowerChars) \cup Range(UpperChars) \cup Range(DigitChars) \cup {"_"}

UpperMap == [c \in LowerSet |-> UpperChars[CHOOSE i \in DOMAIN LowerChars : LowerChars[i] = c]]
DigitMap == [c \in DigitSet |-> (CHOOSE i \in DOMAIN DigitChars : DigitChars[i] = c) - 1]

\* str.upper() on one character.
UpperChar(c) == IF c \in LowerSet THEN UpperMap[c] ELSE c

\* str.upper()
upper(s) == [i \in DOMAIN s |-> UpperChar(s[i])]

\* \w of the re module, on the model's characters.
IsWord(c) == c \in WordSet

\* \d of the re module.
IsDigit(c) == c \in DigitSet

DigitVal(c) == DigitMap[c]

Min2(a, b) == IF a < b THEN a ELSE b

\* Python slice s[a:b] with 0-based a, b >= 0 (out-of-range indices are clamped).
Slice(s, a, b) ==
    LET hi == Min2(b, Len(s)) IN
    IF a >= hi THEN << >> ELSE SubSeq(s, a + 1, hi)

\* Python slice s[a:]
SliceFrom(s, a) == Slice(s, a, Len(s))

\* int() of a string of decimal digits (as matched by \d+).
RECURSIVE int(_)
int(s) == IF s = << >> THEN 0
          ELSE 10 * int(SubSeq(s, 1, Len(s) - 1)) + DigitVal(s[Len(s)])

\* str() of a non-negative integer.
RECURSIVE str(_)
str(n) == IF n < 10 THEN <<DigitChars[n + 1]>>
          ELSE str(n \div 10) \o <<DigitChars[(n % 10) + 1]>>

\* s.startswith(p)
startswith(s, p) == Len(s) >= Len(p) /\ SubSeq(s, 1, Len(p)) = p

----------------------------------------------------------------------------
(* The compiled regular expressions (adif.py 65-67).  A search returns the *)
(* left-most match; 0-based positions as in the re module.                 *)

\* Last index of the maximal run of word characters (digits, characters
\* other than '<') of s starting at index i; i - 1 when the run is empty.
RECURSIVE WordRunEnd(_, _)
WordRunEnd(s, i) ==
    IF i <= Len(s) /\ IsWord(s[i]) THEN WordRunEnd(s, i + 1) ELSE i - 1

RECURSIVE DigitRunEnd(_, _)
DigitRunEnd(s, i) ==
    IF i <= Len(s) /\ IsDigit(s[i]) THEN DigitRunEnd(s, i + 1) ELSE i - 1

RECURSIVE NonLtRunEnd(_, _)
NonLtRunEnd(s, i) ==
    IF i <= Len(s) /\ s[i] # "<" THEN NonLtRunEnd(s, i + 1) ELSE i - 1

NoMatch == [found |-> FALSE]

\* The optional (:\w) and the \> after the digits ending at index k: the
\* index of the first character of group 4, 0 when there is no match.
ValueStart(s, k) ==
    IF k + 3 <= Len(s) /\ s[k + 1] = ":" /\ IsWord(s[k + 2]) /\ s[k + 3] = ">"
    THEN k + 4
    ELSE IF k + 1 <= Len(s) /\ s[k + 1] = ">" THEN k + 2
    ELSE 0

\* The match, given the tag s[i+1..j], the digits s[j+2..k] and the index v
\* of the first character of group 4.
SpecifierMatch(s, i, j, k, v) ==
    IF k < j + 2 \/ v = 0 THEN NoMatch
    ELSE [found  |-> TRUE,
          g1     |-> SubSeq(s, i + 1, j),
          g2     |-> SubSeq(s, j + 2, k),
          g4     |-> SubSeq(s, v, NonLtRunEnd(s, v)),
          start4 |-> v - 1]

SpecifierDigits(s, i, j, k) == SpecifierMatch(s, i, j, k, ValueStart(s, k))

SpecifierTag(s, i, j) ==
    IF j < i + 1 \/ j + 1 > Len(s) \/ s[j + 1] # ":" THEN NoMatch
    ELSE SpecifierDigits(s, i, j, DigitRunEnd(s, j + 2))

\* Match of \<(\w+):(\d+)(:\w)?\>([^<]*) anchored at 1-based index i.
\* g1, g2, g4 are the groups; start4 is m.start(4), 0-based.
SpecifierAt(s, i) ==
    IF i > Len(s) \/ s[i] # "<" THEN NoMatch
    ELSE SpecifierTag(s, i, WordRunEnd(s, i + 1))

\* The left-most match at or after index i.
RECURSIVE SpecifierFrom(_, _)
SpecifierNext(s, i, m) == IF m.found THEN m ELSE SpecifierFrom(s, i + 1)
SpecifierFrom(s, i) ==
    IF i > Len(s) THEN NoMatch
    ELSE IF s[i] # "<" THEN SpecifierFrom(s, i + 1)
    ELSE SpecifierNext(s, i, SpecifierAt(s, i))

\* adif_specifier_re.search(s)
adif_specifier_re(s) == SpecifierFrom(s, 1)

\* A bare marker <XYZ>, case-insensitive, at 1-based index i.
MarkerAt(s, i, name) ==
    /\ i + 4 <= Len(s)
    /\ s[i] = "<"
    /\ UpperChar(s[i + 1]) = name[1]
    /\ UpperChar(s[i + 2]) = name[2]
    /\ UpperChar(s[i + 3]) = name[3]
    /\ s[i + 4] = ">"

\* The left-most marker at or after index i: [found, end], end = m.end().
RECURSIVE MarkerFrom(_, _, _)
MarkerFrom(s, i, name) ==
    IF i + 4 > Len(s) THEN [found |-> FALSE, end |-> 0]
    ELSE IF MarkerAt(s, i, name) THEN [found |-> TRUE, end |-> i + 4]
    ELSE MarkerFrom(s, i + 1, name)

MarkerSearch(s, name) == MarkerFrom(s, 1, name)

\* adif_eoh_re.search(s)
adif_eoh_re(s) == MarkerSearch(s, <<"E","O","H">>)

\* adif_eor_re.search(s)
adif_eor_re(s) == MarkerSearch(s, <<"E","O","R">>)

----------------------------------------------------------------------------
(* The adif object: QSO, HEADER, _EOH and _line (adif.py 118-139).         *)

\* An empty dictionary.
EmptyRecord == [t \in {} |-> << >>]

\* The tags parse treats as header fields (adif.py 327-339).
ADIF_VER          == <<"A","D","I","F","_","V","E","R">>
ADIF_VERS         == <<"A","D","I","F","_","V","E","R","S">>
CREATED_TIMESTAMP == <<"C","R","E","A","T","E","D","_","T","I","M","E","S","T","A","M","P">>
PROGRAMID         == <<"P","R","O","G","R","A","M","I","D">>
PROGRAMVERSION    == <<"P","R","O","G","R","A","M","V","E","R","S","I","O","N">>
USERDEF           == <<"U","S","E","R","D","E","F">>

\* adif.__init__(): the state of a new adif object.
adif_init == [QSO |-> EmptyRecord, HEADER |-> EmptyRecord, EOH |-> FALSE, line |-> << >>]

\* adif.clear(): empties the record and the pending line.
clear(a) == [a EXCEPT !.QSO = EmptyRecord, !.line = << >>]

\* d[k] = v on a dictionary.
set_item(d, k, v) == [t \in (DOMAIN d) \cup {k} |-> IF t = k THEN v ELSE d[t]]

\* tag = m.group(1).upper()
TagLower(g1) == g1
TagOf(g1) == upper(g1)

\* sz = int(m.group(2)); sz1 = len(m.group(4)); if (sz1 < sz): sz = sz1
ClampWholeGroup(sz, sz1) == sz1
ClampLen(sz, sz1) == IF sz1 < sz THEN sz1 ELSE sz

\* The header-specific fields of parse.
HeaderFields(header, tag, value) ==
    IF tag = ADIF_VER THEN set_item(header, tag, value)
    ELSE IF tag = ADIF_VERS THEN set_item(set_item(header, tag, value), ADIF_VER, value)
    ELSE IF tag = CREATED_TIMESTAMP THEN set_item(header, tag, value)
    ELSE IF tag = PROGRAMID THEN set_item(header, tag, value)
    ELSE IF tag = PROGRAMVERSION THEN set_item(header, tag, value)
    ELSE IF startswith(tag, USERDEF) THEN set_item(header, tag, value)
    ELSE header

\* The while loop of parse: every specifier of record, left to right, each
\* search starting right after the value taken by the one before.  off is
\* the number of characters already cut from the front of the text parse
\* was given; trace lists what each iteration found and stored.
RECURSIVE ScanLoop(_, _, _, _, _)

\* One iteration, for the match m, its tag, effective length sz and value.
ScanStore(record, qso, header, off, trace, m, tag, sz, value) ==
    ScanLoop(SliceFrom(record, m.start4 + sz),
             set_item(qso, tag, value),
             HeaderFields(header, tag, value),
             off + m.start4 + sz,
             Append(trace, [tag |-> tag, declared |-> int(m.g2),
                            start4 |-> off + m.start4, value |-> value]))

ScanSize(record, qso, header, off, trace, m, sz) ==
    ScanStore(record, qso, header, off, trace, m, TagOf(m.g1), sz, Slice(m.g4, 0, sz))

ScanMatch(record, qso, header, off, trace, m) ==
    IF ~m.found
    THEN [record |-> record, QSO |-> qso, HEADER |-> header, found |-> trace]
    ELSE ScanSize(record, qso, header, off, trace, m, ClampLen(int(m.g2), Len(m.g4)))

ScanLoop(record, qso, header, off, trace) ==
    ScanMatch(record, qso, header, off, trace, adif_specifier_re(record))

\* The end of parse: the two marker checks on what the loop left of record.
\* a: the object after the loop, sc: the result of the loop.
ParseMarkers(a, sc) ==
    [a         |-> IF adif_eoh_re(sc.record).found
                   THEN [clear(a) EXCEPT !.EOH = TRUE]
                   ELSE a,
     eor_found |-> adif_eor_re(sc.record).found,
     found     |-> sc.found]

ParseScanned(a, sc) ==
    ParseMarkers([a EXCEPT !.QSO = sc.QSO, !.HEADER = sc.HEADER, !.EOH = FALSE], sc)

ParseFrom(a, record) ==
    ParseScanned(a, ScanLoop(record, a.QSO, a.HEADER, 0, << >>))

\* adif.parse(record, new) on the adif object a.  Returns the object after
\* the call, the return value eor_found and the specifiers found.
parse(a, record, new) == ParseFrom(IF new THEN clear(a) ELSE a, record)

----------------------------------------------------------------------------
(* adif.next_record (adif.py 238-291).                                     *)

\* A character that make_utf8 cannot convert and drops.
BadChar == "?"

\* strutils.make_utf8: text that cannot be converted to UTF-8 is dropped.
make_utf8(s) == SelectSeq(s, LAMBDA c : c # BadChar)

\* .replace('\n', ' ').replace('\r', ' ')
ReplaceNewlines(s) == [i \in DOMAIN s |-> IF s[i] \in {"\n", "\r"} THEN " " ELSE s[i]]

\* What a next_record call hands back to the model: the object, the return
\* value, the number of lines it read and whether the read raised.
Result(a, r, nread, raised) == [a |-> a, ret |-> r, nread |-> nread, raised |-> raised]

\* "eor = self.parse(self._line, eor); if eor: self._line = self._line[idx:]"
\* m: the <EOR> match in the line before the parse, p: the result of parse.
EorParsed(m, p) ==
    IF p.eor_found
    THEN [a |-> [p.a EXCEPT !.line = SliceFrom(p.a.line, m.end)], eor |-> TRUE, done |-> TRUE]
    ELSE [a |-> p.a, eor |-> FALSE, done |-> FALSE]

EorMatched(a, eor, m) ==
    IF ~m.found THEN [a |-> a, eor |-> eor, done |-> FALSE]
    ELSE EorParsed(m, parse(a, a.line, eor))

\* "m = adif_eor_re.search(self._line); if m: eor = self.parse(self._line,
\* eor); if eor: cut; return True" (adif.py 250-257, 273-280, 283-289): the
\* object and eor after the check, done when the call returns True.
EorCheck(a, eor) == EorMatched(a, eor, adif_eor_re(a.line))

\* "self.parse(self._line, True); self._line = self._line[idx:]; eor = False"
EohParsed(m, p) == [a |-> [p.a EXCEPT !.line = SliceFrom(p.a.line, m.end)], eor |-> FALSE]

EohMatched(a, eor, m) ==
    IF ~m.found THEN [a |-> a, eor |-> eor]
    ELSE EohParsed(m, parse(a, a.line, TRUE))

\* "m = adif_eoh_re.search(self._line); if m: ..." (adif.py 265-271).
EohCheck(a, eor) == EohMatched(a, eor, adif_eoh_re(a.line))

\* The for loop over the file and the final check.  rest: the lines the file
\* still holds; nread: the lines this call has read; failAt: the read
\* (counted within this call) at which the file object raises, 0 for none.
RECURSIVE ReadLoop(_, _, _, _, _)

\* The end of an iteration: c is the result of its <EOR> check.
ReadChecked(c, rest, nread, failAt) ==
    IF c.done THEN Result(c.a, TRUE, nread + 1, FALSE)
    ELSE ReadLoop(c.a, c.eor, Tail(rest), nread + 1, failAt)

\* h: the result of the iteration's <EOH> check.
ReadHeader(h, rest, nread, failAt) ==
    ReadChecked(EorCheck(h.a, h.eor), rest, nread, failAt)

\* The final check after the loop.
ReadEnd(c, nread) == Result(c.a, c.done, nread, FALSE)

ReadLoop(a, eor, rest, nread, failAt) ==
    IF failAt = nread + 1 THEN Result(a, FALSE, nread, TRUE)
    ELSE IF rest = << >> THEN ReadEnd(EorCheck(a, eor), nread)
    ELSE ReadHeader(EohCheck([a EXCEPT !.line = a.line \o ReplaceNewlines(make_utf8(Head(rest)))],
                             eor),
                    rest, nread, failAt)

\* The check of the pending line at entry; c is its result.
EntryChecked(c, rest, failAt) ==
    IF c.done THEN Result(c.a, TRUE, 0, FALSE)
    ELSE ReadLoop(c.a, c.eor, rest, 0, failAt)

\* adif.next_record(file)
next_record(a, rest, failAt) == EntryChecked(EorCheck(a, TRUE), rest, failAt)

----------------------------------------------------------------------------
(* Text files.                                                             *)

RECURSIVE Flatten(_)
Flatten(ss) == IF ss = << >> THEN << >> ELSE Head(ss) \o Flatten(Tail(ss))

\* The lines a file object yields for a text: each line keeps its "\n".
RECURSIVE SplitLines(_)
SplitLines(text) ==
    IF text = << >> THEN << >>
    ELSE LET N == {i \in 1..Len(text) : text[i] = "\n"} IN
         IF N = {} THEN <<text>>
         ELSE LET n == CHOOSE i \in N : \A h \in N : i <= h IN
              <<SubSeq(text, 1, n)>> \o SplitLines(SubSeq(text, n + 1, Len(text)))

\* The pieces the model's files are made of.
TokVER  == <<"<","A","D","I","F","_","V","E","R",":","5",">","3",".","1",".","0">>
TokEOH  == <<"<","E","O","H",">">>
TokCALL == <<"<","c","a","l","l",":","4",">","W","1","A","W">>
TokBAND == <<"<","B","A","N","D",":","3",">","2","0","m">>
TokEOR  == <<"<","e","o","r",">">>
TokNL   == <<"\n">>

Tokens == <<TokVER, TokEOH, TokCALL, TokBAND, TokEOR, TokNL>>

\* Longest file, in pieces.
MaxTokens == 5

Files == {SplitLines(Flatten([i \in DOMAIN f |-> Tokens[f[i]]])) :
            f \in UNION {[1..n -> DOMAIN Tokens] : n \in 0..MaxTokens}}

----------------------------------------------------------------------------
(* The state and its initial values.                                       *)

\* Observations of a call that has not happened.
NoCall == [entry |-> << >>, reads |-> 0, called |-> FALSE, open |-> FALSE]

ReaderInit(f) ==
    /\ stream = f
    /\ fpos = 0
    /\ line = adif_init.line
    /\ QSO = adif_init.QSO
    /\ HEADER = adif_init.HEADER
    /\ EOH = adif_init.EOH
    /\ ret = "none"
    /\ nTrue = 0
    /\ last = NoCall

\* adif_iter.__init__(): no file object yet.
IterInit ==
    /\ fileobj = "None"
    /\ closed = FALSE
    /\ outcome = "none"

NoBuffer == buffer = << >> /\ found = << >> /\ input = << >>

\* No merge has been called.
NoMerge == update_fields = TRUE /\ into_record = EmptyRecord /\ merged_record = EmptyRecord

NoRecords == record1 = EmptyRecord /\ record2 = EmptyRecord /\ NoMerge

readerVars == <<stream, fpos, line, QSO, HEADER, EOH, ret, nTrue, last>>
iterVars   == <<fileobj, closed, outcome>>
parseVars  == <<buffer, found, input>>
matchVars  == <<record1, record2, update_fields, into_record, merged_record>>

\* The adif object held in the variables.
self == [QSO |-> QSO, HEADER |-> HEADER, EOH |-> EOH, line |-> line]

\* The lines the file object has not yet yielded.
Unread == SubSeq(stream, fpos + 1, Len(stream))

Bool(b) == IF b THEN "True" ELSE "False"

\* The effect of one next_record call, reading fails at read failAt.
CallNextRecord(failAt) ==
    \E r \in {next_record(self, Unread, failAt)} :
    /\ QSO' = r.a.QSO
    /\ HEADER' = r.a.HEADER
    /\ EOH' = r.a.EOH
    /\ line' = r.a.line
    /\ fpos' = fpos + r.nread
    /\ ret' = IF r.raised THEN "raise" ELSE Bool(r.ret)
    /\ nTrue' = IF r.ret THEN nTrue + 1 ELSE nTrue
    /\ last' = [entry |-> line, reads |-> r.nread, called |-> TRUE, open |-> TRUE]
    /\ UNCHANGED stream

----------------------------------------------------------------------------
(* The reading program (adif.py 768-774): open the file, call next_record  *)
(* until it returns False, close the file.                                 *)

Init ==
    /\ \E f \in Files : ReaderInit(f)
    /\ IterInit /\ NoBuffer /\ NoRecords
    /\ pc = "read"

\* while myAdif.next_record(adif_in)
NextRecord ==
    /\ pc = "read"
    /\ CallNextRecord(0)
    /\ pc' = IF ret' = "True" THEN "read" ELSE "close"
    /\ UNCHANGED <<iterVars, parseVars, matchVars>>

\* adif_in.close()
CloseFile ==
    /\ pc = "close"
    /\ closed' = TRUE
    /\ pc' = "done"
    /\ UNCHANGED <<readerVars, fileobj, outcome, parseVars, matchVars>>

Next == NextRecord \/ CloseFile

Spec == Init /\ [][Next]_vars

----------------------------------------------------------------------------
(* The iterator (adif_iter.py 67-241): __iter__ opens the file, each       *)
(* __next__ asks next_qso for a record and closes the file when there is   *)
(* none.                                                                   *)

\* Longest file handed to the iterator, in pieces.
MaxIterTokens == 4

IterFiles == {SplitLines(Flatten([i \in DOMAIN f |-> Tokens[f[i]]])) :
                f \in UNION {[1..n -> DOMAIN Tokens] : n \in 0..MaxIterTokens}}

\* The reads of one call at which the file object may raise (0: none does).
FailAt == {0, 1, 2}

\* adif_iter.close(): "fileobj.close()" names a global variable the module
\* never defines, the NameError it raises is swallowed by "except Exception:
\* pass", and self.fileobj is set to None: the close operation of the
\* stream is not invoked.  Result: [fileobj, closed].
close(fobj, cl) ==
    IF fobj # "None" THEN [fileobj |-> "None", closed |-> cl]
    ELSE [fileobj |-> fobj, closed |-> cl]

\* The tail of adif_iter.__next__: what the step does with the (qso, status)
\* of next_qso.
YieldAnyRecord(status, qso) == IF status THEN "yield" ELSE "stop"
YieldAlways(status, qso) == "yield"
StepOutcome(status, qso) ==
    IF status
    THEN IF Cardinality(DOMAIN qso) > 0 THEN "yield" ELSE "stop"
    ELSE "stop"

\* status of adif_iter.next_qso: False when there is no file object or when
\* next_record raised, else what next_record returned.
next_qso_status(fobj, r) ==
    IF fobj = "None" THEN FALSE
    ELSE IF r.raised THEN FALSE
    ELSE r.ret

InitIter ==
    /\ \E f \in IterFiles : ReaderInit(f)
    /\ IterInit /\ NoBuffer /\ NoRecords
    /\ pc = "new"

\* adif_iter.__iter__() / open(): closes a file object still held, then
\* opens the file; codecs.open may fail, and then there is no file object.
IterOpen ==
    /\ pc \in {"new", "iterating"}
    /\ \E ok \in BOOLEAN :
         /\ fileobj' = IF ok THEN "open" ELSE "None"
         /\ closed' = IF ok THEN FALSE ELSE close(fileobj, closed).closed
         /\ fpos' = IF ok THEN 0 ELSE fpos
    /\ pc' = IF pc = "new" THEN "iterating" ELSE "reopened"
    /\ UNCHANGED <<stream, line, QSO, HEADER, EOH, ret, nTrue, last, outcome,
                   parseVars, matchVars>>

\* adif_iter.__next__() on a file object: one next_record call.
StepOpen ==
    /\ fileobj # "None"
    /\ \E failAt \in FailAt : CallNextRecord(failAt)
    /\ \E o \in {StepOutcome(next_qso_status(fileobj, [raised |-> ret' = "raise",
                                                         ret |-> ret' = "True"]), QSO')} :
         /\ outcome' = o
         /\ fileobj' = IF o = "stop" THEN close(fileobj, closed).fileobj ELSE fileobj
         /\ closed' = IF o = "stop" THEN close(fileobj, closed).closed ELSE closed
    /\ UNCHANGED <<pc, parseVars, matchVars>>

\* adif_iter.__next__() with no file object: next_record is not called.
StepUnopened ==
    /\ fileobj = "None"
    /\ outcome' = StepOutcome(next_qso_status(fileobj, [raised |-> FALSE, ret |-> FALSE]),
                              EmptyRecord)
    /\ ret' = "none"
    /\ last' = NoCall
    /\ fileobj' = close(fileobj, closed).fileobj
    /\ closed' = close(fileobj, closed).closed
    /\ UNCHANGED <<stream, fpos, line, QSO, HEADER, EOH, nTrue, pc, parseVars, matchVars>>

NextIter == IterOpen \/ StepOpen \/ StepUnopened

SpecIter == InitIter /\ [][NextIter]_vars

----------------------------------------------------------------------------
(* parse on its own: a text written from a list of specifiers is handed to *)
(* parse, with and without reset.                                          *)

\* The text of one specifier: <TAG:LEN>VALUE
SpecifierText(p) == <<"<">> \o p.tag \o <<":">> \o str(p.declared) \o <<">">> \o p.value

TextOf(ps, ending) == Flatten([i \in DOMAIN ps |-> SpecifierText(ps[i])]) \o ending

\* The tags, and the declared lengths and values, of the model's specifiers:
\* exact lengths, a declared length above and below the length of the
\* text, an empty value, a value that holds a '<'.
PieceTags == {<<"a">>, <<"A">>, <<"B">>}
PieceValues == {[declared |-> 0,  value |-> << >>],
                [declared |-> 1,  value |-> <<"q">>],
                [declared |-> 3,  value |-> <<"x","y","z">>],
                [declared |-> 3,  value |-> <<"x","<","y">>],
                [declared |-> 10, value |-> <<"a","b">>],
                [declared |-> 1,  value |-> <<"x","y","z">>]}
Pieces == {[tag |-> t, declared |-> v.declared, value |-> v.value] :
             t \in PieceTags, v \in PieceValues}

\* What follows the last specifier.
Endings == {<<"<","E","O","R",">">>, TokEOR, << >>}

\* Most specifiers in a text.
MaxSpecs == 2

\* A record a parse without reset finds in the object.
OldRecord == (<<"O","L","D">> :> <<"v">>)

InitParse ==
    /\ \E ps \in UNION {[1..n -> Pieces] : n \in 0..MaxSpecs}, e \in Endings :
         /\ input = ps
         /\ buffer = TextOf(ps, e)
    /\ found = << >>
    /\ stream = << >> /\ fpos = 0 /\ ret = "none" /\ nTrue = 0 /\ last = NoCall
    /\ QSO \in {EmptyRecord, OldRecord}
    /\ HEADER = EmptyRecord /\ EOH = FALSE /\ line = << >>
    /\ IterInit /\ NoRecords
    /\ pc = "start"

\* The effect of parse(buffer, new) on the object.
CallParse(new) ==
    \E p \in {parse(self, buffer, new)} :
        /\ QSO' = p.a.QSO
        /\ HEADER' = p.a.HEADER
        /\ EOH' = p.a.EOH
        /\ line' = p.a.line
        /\ found' = p.found
        /\ ret' = Bool(p.eor_found)

\* parse(buffer, True)
ParseReset ==
    /\ pc = "start"
    /\ CallParse(TRUE)
    /\ pc' = "parsed"
    /\ UNCHANGED <<stream, fpos, nTrue, last, iterVars, buffer, input, matchVars>>

\* parse(buffer), new = False
ParseKeep ==
    /\ pc = "start"
    /\ CallParse(FALSE)
    /\ pc' = "added"
    /\ UNCHANGED <<stream, fpos, nTrue, last, iterVars, buffer, input, matchVars>>

NextParse == ParseReset \/ ParseKeep

SpecParse == InitParse /\ [][NextParse]_vars

----------------------------------------------------------------------------
(* get_adif, and the round trip through parse (adif.py 178-187).           *)

\* a < b for Python strings: the order sorted() puts tags in.
RECURSIVE StrLess(_, _)
StrLess(a, b) ==
    IF b = << >> THEN FALSE
    ELSE IF a = << >> THEN TRUE
    ELSE IF Head(a) = Head(b) THEN StrLess(Tail(a), Tail(b))
    ELSE Ord(Head(a)) < Ord(Head(b))

\* sorted(keys)
RECURSIVE sorted(_)
SortedDescending(S) ==
    IF S = {} THEN << >>
    ELSE LET m == CHOOSE x \in S : \A y \in S \ {x} : StrLess(y, x)
         IN <<m>> \o sorted(S \ {m})
sorted(S) ==
    IF S = {} THEN << >>
    ELSE LET m == CHOOSE x \in S : \A y \in S \ {x} : StrLess(x, y)
         IN <<m>> \o sorted(S \ {m})

\* '<' + field + ':' + str(len(value)) + '>' + value + ' '
FieldText(field, value) ==
    <<"<">> \o field \o <<":">> \o str(Len(value)) \o <<">">> \o value \o <<" ">>

\* adif.get_adif() of the record qso.
get_adif(qso) ==
    Flatten([i \in 1..Cardinality(DOMAIN qso) |->
                FieldText(sorted(DOMAIN qso)[i], qso[sorted(DOMAIN qso)[i]])])
    \o <<"<","E","O","R",">">>

CALL == <<"C","A","L","L">>
BAND == <<"B","A","N","D">>

\* The tags and values of the records that are serialized.
RoundTripTags == {BAND, CALL, <<"B","2">>}
RoundTripValues == {<< >>, <<"2","0","m">>, <<"W","1","A","W">>, <<"a"," ",">">>}

RoundTripRecords ==
    UNION {[D -> RoundTripValues] : D \in SUBSET RoundTripTags}

InitRoundTrip ==
    /\ record1 \in RoundTripRecords
    /\ record2 = EmptyRecord
    /\ NoMerge
    /\ \E f \in {<< >>} : ReaderInit(f)
    /\ IterInit /\ NoBuffer
    /\ pc = "record"

\* text = adif(record1).get_adif()
GetAdif ==
    /\ pc = "record"
    /\ buffer' = get_adif(record1)
    /\ pc' = "serialized"
    /\ UNCHANGED <<readerVars, iterVars, found, input, matchVars>>

\* adif().parse(text, True)
ParseBack ==
    /\ pc = "serialized"
    /\ CallParse(TRUE)
    /\ pc' = "reparsed"
    /\ UNCHANGED <<stream, fpos, nTrue, last, iterVars, buffer, input, matchVars>>

NextRoundTrip == GetAdif \/ ParseBack

SpecRoundTrip == InitRoundTrip /\ [][NextRoundTrip]_vars

----------------------------------------------------------------------------
(* adifMerge (adif.py 366-609): minimumQso, modeMatch, timeMatch, match.   *)

MODE     == <<"M","O","D","E">>
SUBMODE  == <<"S","U","B","M","O","D","E">>
QSO_DATE == <<"Q","S","O","_","D","A","T","E">>
TIME_ON  == <<"T","I","M","E","_","O","N">>

\* str.strip() of blanks.
RECURSIVE strip(_)
strip(s) ==
    IF s = << >> THEN s
    ELSE IF Head(s) = " " THEN strip(Tail(s))
    ELSE IF s[Len(s)] = " " THEN strip(SubSeq(s, 1, Len(s) - 1))
    ELSE s

\* adif.has_field(field) on the record qso.
has_field(qso, field) == upper(strip(field)) \in DOMAIN qso

\* adif.get_field(field): the value, or the empty string.
get_field(qso, field) ==
    IF upper(strip(field)) \in DOMAIN qso THEN qso[upper(strip(field))] ELSE << >>

\* adifMerge.minimumQso(record)
minimumQso(record) ==
    /\ has_field(record, CALL) /\ has_field(record, BAND) /\ has_field(record, MODE)
    /\ has_field(record, QSO_DATE) /\ has_field(record, TIME_ON)

\* The body of modeMatch on the upper-cased modes and submodes.
ModesBothSubmodes(m1, m2, sm1, sm2) ==
    IF Len(m1) = 0 \/ Len(m2) = 0 THEN FALSE
    ELSE IF m1 = m2 THEN Len(sm1) > 0 /\ Len(sm2) > 0 /\ sm1 = sm2
    ELSE IF m1 = sm2 THEN TRUE
    ELSE m2 = sm1
ModesNoCross(m1, m2, sm1, sm2) ==
    IF Len(m1) = 0 \/ Len(m2) = 0 THEN FALSE
    ELSE IF m1 = m2
         THEN IF Len(sm1) > 0 /\ Len(sm2) > 0 THEN sm1 = sm2 ELSE TRUE
    ELSE FALSE
ModesCompatible(m1, m2, sm1, sm2) ==
    IF Len(m1) = 0 \/ Len(m2) = 0 THEN FALSE
    ELSE IF m1 = m2
         THEN IF Len(sm1) > 0 /\ Len(sm2) > 0 THEN sm1 = sm2 ELSE TRUE
    ELSE IF m1 = sm2 THEN TRUE
    ELSE IF m2 = sm1 THEN TRUE
    ELSE FALSE

\* adifMerge.modeMatch(record1, record2)
modeMatch(r1, r2) ==
    ModesCompatible(upper(get_field(r1, MODE)), upper(get_field(r2, MODE)),
                    upper(get_field(r1, SUBMODE)), upper(get_field(r2, SUBMODE)))

\* self.MaxSeconds
MaxSeconds == 900

\* int(s) raises ValueError unless s is a string of decimal digits (the
\* values of the model hold no sign, blank or underscore).
IntOk(s) == s # << >> /\ \A i \in DOMAIN s : IsDigit(s[i])

IsLeap(y) == (y % 4 = 0) /\ (y % 100 # 0 \/ y % 400 = 0)

DaysInMonth(y, m) ==
    IF m = 2 THEN (IF IsLeap(y) THEN 29 ELSE 28)
    ELSE IF m \in {4, 6, 9, 11} THEN 30 ELSE 31

DaysBeforeYear(y) == (y - 1) * 365 + (y - 1) \div 4 - (y - 1) \div 100 + (y - 1) \div 400

RECURSIVE DaysBeforeMonth(_, _)
DaysBeforeMonth(y, m) == IF m <= 1 THEN 0 ELSE DaysBeforeMonth(y, m - 1) + DaysInMonth(y, m - 1)

\* datetime(y, mo, d, h, mi, sec): ValueError when a field is out of range,
\* else the instant as its day number (toordinal) and its second of the day.
datetime(y, mo, d, h, mi, sec) ==
    IF /\ y \in 1..9999 /\ mo \in 1..12 /\ d >= 1 /\ d <= DaysInMonth(y, mo)
       /\ h \in 0..23 /\ mi \in 0..59 /\ sec \in 0..59
    THEN [ok |-> TRUE,
          days |-> DaysBeforeYear(y) + DaysBeforeMonth(y, mo) + d,
          secs |-> h * 3600 + mi * 60 + sec]
    ELSE [ok |-> FALSE, days |-> 0, secs |-> 0]

\* The date-time without its seconds.
DateTimeWithoutSeconds(d, t) ==
    IF /\ (Len(t) > 4 => IntOk(Slice(t, 4, 6)))
       /\ IntOk(Slice(d, 0, 4)) /\ IntOk(Slice(d, 4, 6)) /\ IntOk(Slice(d, 6, 8))
       /\ IntOk(Slice(t, 0, 2)) /\ IntOk(Slice(t, 2, 4))
    THEN datetime(int(Slice(d, 0, 4)), int(Slice(d, 4, 6)), int(Slice(d, 6, 8)),
                  int(Slice(t, 0, 2)), int(Slice(t, 2, 4)), 0)
    ELSE [ok |-> FALSE, days |-> 0, secs |-> 0]

\* The date-time timeMatch builds from QSO_DATE d and TIME_ON t: not ok when
\* an int() or the datetime constructor raises.
DateTimeOf(d, t) ==
    IF /\ (Len(t) > 4 => IntOk(Slice(t, 4, 6)))
       /\ IntOk(Slice(d, 0, 4)) /\ IntOk(Slice(d, 4, 6)) /\ IntOk(Slice(d, 6, 8))
       /\ IntOk(Slice(t, 0, 2)) /\ IntOk(Slice(t, 2, 4))
    THEN datetime(int(Slice(d, 0, 4)), int(Slice(d, 4, 6)), int(Slice(d, 6, 8)),
                  int(Slice(t, 0, 2)), int(Slice(t, 2, 4)),
                  IF Len(t) > 4 THEN int(Slice(t, 4, 6)) ELSE 0)
    ELSE [ok |-> FALSE, days |-> 0, secs |-> 0]

Abs(n) == IF n < 0 THEN -n ELSE n

\* A difference that counts a change of calendar day as a day.
TimedeltaByCalendarDay(dd, ds) ==
    IF dd # 0 THEN [days |-> Abs(dd), seconds |-> 0]
    ELSE [days |-> 0, seconds |-> Abs(ds)]

\* abs(dt1 - dt2) as a timedelta of whole seconds: days and seconds, with
\* 0 <= seconds < 86400.  Two or more day numbers apart is at least a day.
timedelta(dd, ds) ==
    IF Abs(dd) > 1 THEN [days |-> Abs(dd) - 1, seconds |-> 0]
    ELSE [days    |-> Abs(dd * 86400 + ds) \div 86400,
          seconds |-> Abs(dd * 86400 + ds) % 86400]

StrictlyWithinMaxSeconds(td) == td.days = 0 /\ td.seconds < MaxSeconds
\* (td.days == 0) and (td.seconds <= self.MaxSeconds)
WithinMaxSeconds(td) == td.days = 0 /\ td.seconds <= MaxSeconds

TimeDelta(dt1, dt2) ==
    IF ~dt1.ok \/ ~dt2.ok THEN [raised |-> TRUE, value |-> FALSE]
    ELSE [raised |-> FALSE,
          value  |-> WithinMaxSeconds(timedelta(dt1.days - dt2.days, dt1.secs - dt2.secs))]

\* adifMerge.timeMatch(record1, record2): the result, or raised.
timeMatch(r1, r2) ==
    TimeDelta(DateTimeOf(get_field(r1, QSO_DATE), get_field(r1, TIME_ON)),
              DateTimeOf(get_field(r2, QSO_DATE), get_field(r2, TIME_ON)))

\* What a call gave: "True", "False", or "raise" when it raised.
Outcome(r) == IF r.raised THEN "raise" ELSE Bool(r.value)

\* adifMerge.match(record1, record2)
MatchCaseSensitive(r1, r2) ==
    IF ~minimumQso(r1) THEN "False"
    ELSE IF ~minimumQso(r2) THEN "False"
    ELSE IF get_field(r1, CALL) # get_field(r2, CALL) THEN "False"
    ELSE IF upper(get_field(r1, BAND)) # upper(get_field(r2, BAND)) THEN "False"
    ELSE IF ~modeMatch(r1, r2) THEN "False"
    ELSE Outcome(timeMatch(r1, r2))
match(r1, r2) ==
    IF ~minimumQso(r1) THEN "False"
    ELSE IF ~minimumQso(r2) THEN "False"
    ELSE IF upper(get_field(r1, CALL)) # upper(get_field(r2, CALL)) THEN "False"
    ELSE IF upper(get_field(r1, BAND)) # upper(get_field(r2, BAND)) THEN "False"
    ELSE IF ~modeMatch(r1, r2) THEN "False"
    ELSE Outcome(timeMatch(r1, r2))

\* The records handed to the matcher: complete records, and the same with
\* one field taken out.
Without(r, f) == [t \in (DOMAIN r) \ {f} |-> r[t]]

WithSubmode(r, sm) == IF sm = <<"-">> THEN r ELSE (SUBMODE :> sm) @@ r

Record(call, band, mode, sm, date, time) ==
    WithSubmode((CALL :> call) @@ (BAND :> band) @@ (MODE :> mode)
                @@ (QSO_DATE :> date) @@ (TIME_ON :> time), sm)

\* <<"-">> stands for a record without SUBMODE.
Complete1 ==
    {Record(<<"W","1","A","W">>, <<"2","0","m">>, m, sm, <<"2","0","2","3","0","1","0","1">>, <<"2","3","5","0","0","0">>) :
        m \in {<< >>, <<"P","S","K">>, <<"P","S","K","3","1">>}, sm \in {<<"-">>, << >>, <<"P","S","K","3","1">>, <<"P","S","K">>}}

Complete2 ==
    {Record(c, b, m, sm, d, t) :
        c \in {<<"w","1","a","w">>, <<"K","1","A","B">>}, b \in {<<"2","0","M">>, <<"4","0","m">>},
        m \in {<< >>, <<"p","s","k">>, <<"P","S","K","3","1">>}, sm \in {<<"-">>, <<"p","s","k","3","1">>},
        d \in {<<"2","0","2","3","0","1","0","1">>, <<"2","0","2","3","0","1","0","2">>}, t \in {<<"2","3","5","9">>, <<"2","3","5","9","0","1">>, << >>}}

Records1 == Complete1 \cup {Without(r, f) : r \in Complete1,
                                            f \in {CALL, BAND, MODE, QSO_DATE, TIME_ON}}

Records2 == Complete2 \cup {Without(r, f) : r \in Complete2, f \in {MODE, TIME_ON}}

InitMatch ==
    /\ record1 \in Records1
    /\ record2 \in Records2
    /\ NoMerge
    /\ \E f \in {<< >>} : ReaderInit(f)
    /\ IterInit /\ NoBuffer
    /\ pc = "records"

\* ret = match(record1, record2)
Match ==
    /\ pc = "records"
    /\ ret' = match(record1, record2)
    /\ pc' = "matched"
    /\ UNCHANGED <<stream, fpos, line, QSO, HEADER, EOH, nTrue, last,
                   iterVars, parseVars, matchVars>>

\* ret = modeMatch(record1, record2)
ModeMatch ==
    /\ pc = "records"
    /\ ret' = Bool(modeMatch(record1, record2))
    /\ pc' = "modes"
    /\ UNCHANGED <<stream, fpos, line, QSO, HEADER, EOH, nTrue, last,
                   iterVars, parseVars, matchVars>>

NextMatch == Match \/ ModeMatch

SpecMatch == InitMatch /\ [][NextMatch]_vars

----------------------------------------------------------------------------
(* The time check on its own: two records that agree on call, band and     *)
(* mode, over dates and times inside and outside the calendar.             *)

\* Calendar dates (the turn of a day, of a year, the end of February in a
\* leap year) and values that are no date: empty, too short, not numeric,
\* out of range.
Dates == {<<"2","0","2","3","0","1","0","1">>, <<"2","0","2","3","0","1","0","2">>, <<"2","0","2","3","1","2","3","1">>, <<"2","0","2","4","0","1","0","1">>, <<"2","0","2","4","0","2","2","9">>, <<"2","0","2","4","0","3","0","1">>,
          << >>, <<"2","0","2","3">>, <<"2","0","2","3","A","B","0","1">>, <<"2","0","2","3","0","2","3","0">>}

\* Times of day with and without seconds, and values that are no time.
Times == {<<"2","3","5","0","0","0">>, <<"2","3","5","9","0","0">>, <<"2","3","5","9","0","1">>, <<"2","3","4","4","0","0">>, <<"2","3","4","4">>, <<"2","3","5","9">>,
          <<"2","3","5","9","3","0">>, <<"0","0","0","0","3","0">>, <<"0","0","0","0">>,
          << >>, <<"2","3">>, <<"2","3","x","x">>, <<"2","3","6","0">>, <<"2","3","5","9","x","x">>}

TimedRecord(d, t) == Record(<<"W","1","A","W">>, <<"2","0","m">>, <<"P","S","K">>, <<"-">>, d, t)

InitTime ==
    /\ record1 \in {TimedRecord(d, t) : d \in Dates, t \in Times}
    /\ record2 \in {TimedRecord(d, t) : d \in Dates, t \in Times}
    /\ NoMerge
    /\ \E f \in {<< >>} : ReaderInit(f)
    /\ IterInit /\ NoBuffer
    /\ pc = "records"

\* ret = timeMatch(record1, record2)
TimeMatch ==
    /\ pc = "records"
    /\ ret' = Outcome(timeMatch(record1, record2))
    /\ pc' = "timed"
    /\ UNCHANGED <<stream, fpos, line, QSO, HEADER, EOH, nTrue, last,
                   iterVars, parseVars, matchVars>>

NextTime == TimeMatch \/ Match

SpecTime == InitTime /\ [][NextTime]_vars

----------------------------------------------------------------------------
(* adifMerge.merge (adif.py 438-498).  adif(into_record) keeps the         *)
(* dictionary it is given, so set_field writes into into_record itself;    *)
(* from_record is only read.                                               *)

\* adif.set_field(field, value)
set_field(qso, field, value) == set_item(qso, upper(strip(field)), value)

\* adif.get_field_names(), in the order the loop of the model takes them
\* (the keys of a record are distinct upper-case tags, so the fields are
\* merged independently of one another).
get_field_names(qso) == sorted(DOMAIN qso)

\* One turn of the loop of merge: st is [into, modified].
MergeFieldAlways(from, st, field, update) ==
    IF ~has_field(st.into, field) \/ get_field(from, field) # get_field(st.into, field)
    THEN [into |-> set_field(st.into, field, get_field(from, field)), modified |-> TRUE]
    ELSE st
MergeFieldAddOnly(from, st, field, update) ==
    IF ~has_field(st.into, field)
    THEN [into |-> set_field(st.into, field, get_field(from, field)), modified |-> TRUE]
    ELSE st
MergeField(from, st, field, update) ==
    IF ~has_field(st.into, field)
    THEN [into |-> set_field(st.into, field, get_field(from, field)), modified |-> TRUE]
    ELSE IF update /\ get_field(from, field) # get_field(st.into, field)
    THEN [into |-> set_field(st.into, field, get_field(from, field)), modified |-> TRUE]
    ELSE st

\* for field in from_fields: ...
RECURSIVE MergeLoop(_, _, _, _)
MergeLoop(fields, from, st, update) ==
    IF fields = << >> THEN st
    ELSE MergeLoop(Tail(fields), from, MergeField(from, st, Head(fields), update), update)

\* What merge hands back: whether it raised, the returned pair, and the
\* into_record dictionary after the call.
ReturnsInto(into) ==
    [raised |-> FALSE, modified |-> FALSE, merged_record |-> into, into |-> into]
NotMerged(into) ==
    [raised |-> FALSE, modified |-> FALSE, merged_record |-> EmptyRecord, into |-> into]

Merged(st) ==
    [raised |-> FALSE, modified |-> st.modified, merged_record |-> st.into, into |-> st.into]

Raised(into) ==
    [raised |-> TRUE, modified |-> FALSE, merged_record |-> EmptyRecord, into |-> into]

\* The part of merge after the two minimumQso checks; matched is what
\* match(from_record, into_record) gave.
MergeMatched(from, into, update, matched) ==
    IF matched = "raise" THEN Raised(into)
    ELSE IF matched = "False" THEN NotMerged(into)
    ELSE Merged(MergeLoop(get_field_names(from), from,
                          [into |-> into, modified |-> FALSE], update))

\* adifMerge.merge(from_record, into_record, update_fields)
merge(from, into, update) ==
    IF ~minimumQso(from) THEN NotMerged(into)
    ELSE IF ~minimumQso(into) THEN NotMerged(into)
    ELSE MergeMatched(from, into, update, match(from, into))

NOTES    == <<"N","O","T","E","S">>
RST_SENT == <<"R","S","T","_","S","E","N","T">>
QTH      == <<"Q","T","H">>

\* r with the field tag, unless v is <<"-">>.
WithField(r, tag, v) == IF v = <<"-">> THEN r ELSE (tag :> v) @@ r

Viable == Record(<<"W","1","A","W">>, <<"2","0","m">>, <<"P","S","K">>, <<"-">>, <<"2","0","2","3","0","1","0","1">>, <<"2","3","5","0","0","0">>)

\* The records merged from: the viable record, the same with another case
\* of the call sign, a later time, another band, without TIME_ON, with an
\* empty TIME_ON, with a date outside the calendar; each with and without
\* NOTES, RST_SENT and SUBMODE.
SourceCores ==
    {Viable,
     Record(<<"w","1","a","w">>, <<"2","0","m">>, <<"P","S","K">>, <<"-">>, <<"2","0","2","3","0","1","0","1">>, <<"2","3","5","0","0","0">>),
     Record(<<"W","1","A","W">>, <<"2","0","m">>, <<"P","S","K">>, <<"-">>, <<"2","0","2","3","0","1","0","1">>, <<"2","3","5","9">>),
     Record(<<"W","1","A","W">>, <<"4","0","m">>, <<"P","S","K">>, <<"-">>, <<"2","0","2","3","0","1","0","1">>, <<"2","3","5","0","0","0">>),
     Without(Viable, TIME_ON),
     Record(<<"W","1","A","W">>, <<"2","0","m">>, <<"P","S","K">>, <<"-">>, <<"2","0","2","3","0","1","0","1">>, << >>),
     Record(<<"W","1","A","W">>, <<"2","0","m">>, <<"P","S","K">>, <<"-">>, <<"2","0","2","3","0","2","3","0">>, <<"2","3","5","0","0","0">>)}

Sources ==
    {WithField(WithField(WithField(r, NOTES, n), RST_SENT, rst), SUBMODE, sm) :
        r \in SourceCores, n \in {<<"-">>, <<"n","e","w">>}, rst \in {<<"-">>, <<"5","9","9">>},
        sm \in {<<"-">>, <<"P","S","K","3","1">>}}

\* The records merged into: the viable record, the same without CALL, with
\* an empty TIME_ON; each with and without NOTES, RST_SENT and QTH.
DestinationCores ==
    {Viable, Without(Viable, CALL),
     Record(<<"W","1","A","W">>, <<"2","0","m">>, <<"P","S","K">>, <<"-">>, <<"2","0","2","3","0","1","0","1">>, << >>)}

Destinations ==
    {WithField(WithField(WithField(r, NOTES, n), RST_SENT, rst), QTH, h) :
        r \in DestinationCores, n \in {<<"-">>, <<"o","l","d">>, <<"n","e","w">>},
        rst \in {<<"-">>, <<"5","9","9">>}, h \in {<<"-">>, <<"C","T">>}}

InitMerge ==
    /\ record1 \in Sources
    /\ record2 \in Destinations
    /\ NoMerge
    /\ \E f \in {<< >>} : ReaderInit(f)
    /\ IterInit /\ NoBuffer
    /\ pc = "records"

\* (modified, merged_record) = merge(record1, record2, update)
CallMerge(update) ==
    \E r \in {merge(record1, record2, update)} :
    /\ pc = "records"
    /\ update_fields' = update
    /\ ret' = IF r.raised THEN "raise" ELSE Bool(r.modified)
    /\ merged_record' = r.merged_record
    /\ into_record' = r.into
    /\ pc' = "merged"
    /\ UNCHANGED <<stream, fpos, line, QSO, HEADER, EOH, nTrue, last,
                   iterVars, parseVars, record1, record2>>

MergeAdd == CallMerge(FALSE)

MergeUpdate == CallMerge(TRUE)

NextMerge == MergeAdd \/ MergeUpdate \/ Match

SpecMerge == InitMerge /\ [][NextMerge]_vars

----------------------------------------------------------------------------
(* What a file says, read independently of next_record: the whole text of  *)
(* the file with its line ends replaced, cut at its markers.               *)

Text == ReplaceNewlines(Flatten(stream))

\* The fields of a piece of text that holds no marker.
RecordOf(seg) == ScanLoop(seg, EmptyRecord, EmptyRecord, 0, << >>).QSO

\* The header fields of a piece of text.
HeaderOf(seg) == ScanLoop(seg, EmptyRecord, EmptyRecord, 0, << >>).HEADER

\* Number of <EOR> markers of a text.
RECURSIVE EorCount(_)
EorCount(text) ==
    LET m == adif_eor_re(text) IN
    IF m.found THEN 1 + EorCount(SliceFrom(text, m.end)) ELSE 0

\* The text between the (k-1)-th <EOR> (or the start) and the k-th <EOR>.
RECURSIVE Segment(_, _)
Segment(text, k) ==
    LET m == adif_eor_re(text) IN
    IF ~m.found THEN text
    ELSE IF k <= 1 THEN Slice(text, 0, m.end - 5)
    ELSE Segment(SliceFrom(text, m.end), k - 1)

\* The text before and after the first <EOH>.
BeforeEoh(text) == Slice(text, 0, adif_eoh_re(text).end - 5)
AfterEoh(text)  == SliceFrom(text, adif_eoh_re(text).end)

\* The text after the last <EOR> (the whole text when there is none).
RECURSIVE AfterLastEor(_)
AfterLastEor(text) ==
    LET m == adif_eor_re(text) IN
    IF m.found THEN AfterLastEor(SliceFrom(text, m.end)) ELSE text

IsBlank(text) == \A i \in DOMAIN text : text[i] = " "

\* A file of <EOR>-terminated records and nothing else: no <EOH>, at least
\* one <EOR>, only blanks after the last <EOR>.
EorTerminatedRecords(text) ==
    /\ ~adif_eoh_re(text).found
    /\ adif_eor_re(text).found
    /\ IsBlank(AfterLastEor(text))

\* Header fields (ADIF_VER among them), then <EOH>, then the fields of one
\* record, then <EOR>, then blanks.
HeaderThenRecord(text) ==
    /\ adif_eoh_re(text).found
    /\ ~adif_eor_re(BeforeEoh(text)).found
    /\ ADIF_VER \in DOMAIN RecordOf(BeforeEoh(text))
    /\ ~adif_eoh_re(AfterEoh(text)).found
    /\ EorCount(AfterEoh(text)) = 1
    /\ IsBlank(AfterLastEor(text))

----------------------------------------------------------------------------
(* Claims about the reader.                                                *)

\* C1: for a file of header fields, <EOH>, QSO fields, <EOR>, however it is
\* divided into lines: when next_record returns True the record holds only
\* the fields after <EOH>, and ADIF_VER is in HEADER, not in the record.
C1_HeaderFieldsCleared ==
    (ret = "True" /\ nTrue = 1 /\ HeaderThenRecord(Text)) =>
        /\ QSO = RecordOf(Segment(AfterEoh(Text), 1))
        /\ ADIF_VER \in DOMAIN HEADER
        /\ ADIF_VER \notin DOMAIN RecordOf(AfterEoh(Text)) =>
              /\ ADIF_VER \notin DOMAIN QSO
              /\ HEADER[ADIF_VER] = RecordOf(BeforeEoh(Text))[ADIF_VER]

\* C2: for a file of <EOR>-terminated records, also with several records on
\* one line: next_record returns True once per <EOR>, and after the k-th
\* True the record holds exactly the fields between the (k-1)-th and the
\* k-th <EOR>.
C2_OneRecordPerEor ==
    EorTerminatedRecords(Text) =>
        /\ ret = "True" => /\ nTrue <= EorCount(Text)
                           /\ QSO = RecordOf(Segment(Text, nTrue))
        /\ ret = "False" => nTrue = EorCount(Text)

----------------------------------------------------------------------------
(* Claims about the iterator.                                              *)

C4_StreamClosedAtEnd ==
    (outcome = "stop" /\ last.open) => closed

----------------------------------------------------------------------------
(* Claims about parse and get_adif.                                        *)

\* The record a list of specifiers describes: each upper-cased tag with the
\* value of its last occurrence.
ExpectedRecord(ps) ==
    [t \in {upper(ps[i].tag) : i \in DOMAIN ps} |->
        ps[CHOOSE i \in DOMAIN ps :
              /\ upper(ps[i].tag) = t
              /\ \A j \in DOMAIN ps : upper(ps[j].tag) = t => j <= i].value]

CorrectLengths(ps) == \A i \in DOMAIN ps : ps[i].declared = Len(ps[i].value)

NoLessThan(ps) == \A i \in DOMAIN ps : \A k \in DOMAIN ps[i].value : ps[i].value[k] # "<"

EndsWithEor ==
    /\ Len(buffer) >= 5
    /\ upper(SubSeq(buffer, Len(buffer) - 4, Len(buffer))) = <<"<","E","O","R",">">>

\* C5 as stated: for every text made of specifiers with correct lengths
\* followed by <EOR>, parse with reset returns True and leaves exactly the
\* record that maps each upper-cased tag to the value of its last occurrence.
C5_ParsesEveryWellFormedText ==
    (pc = "parsed" /\ CorrectLengths(input) /\ EndsWithEor) =>
        /\ ret = "True"
        /\ QSO = ExpectedRecord(input)

\* C5 as amended: the same, for specifiers whose values hold no '<'.
C5_ParsesWellFormedText ==
    (pc = "parsed" /\ CorrectLengths(input) /\ NoLessThan(input) /\ EndsWithEor) =>
        /\ ret = "True"
        /\ QSO = ExpectedRecord(input)

\* C5 witness: a text with a repeated tag in two cases has been parsed.
C5_Witness ==
    /\ pc = "parsed" /\ CorrectLengths(input) /\ NoLessThan(input) /\ EndsWithEor
    /\ Len(input) = 2 /\ input[1].tag = <<"A">> /\ input[2].tag = <<"a">>
    /\ input[1].value # input[2].value

\* Number of characters of text from 0-based position start up to the next
\* '<' or the end of the text.
SpanLen(text, start) ==
    CHOOSE n \in 0..(Len(text) - start) :
        /\ \A k \in 1..n : text[start + k] # "<"
        /\ (start + n = Len(text) \/ text[start + n + 1] = "<")

\* C6: for every specifier parse finds, the value it stores is the first
\* min(declared length, number of characters between '>' and the next '<'
\* or the end of the text) characters after the '>'.
C6_ValueIsClampedPrefix ==
    pc \in {"parsed", "added"} =>
        \A i \in DOMAIN found :
            /\ buffer[found[i].start4] = ">"
            /\ found[i].value =
                  SubSeq(buffer, found[i].start4 + 1,
                         found[i].start4 + Min2(found[i].declared,
                                                SpanLen(buffer, found[i].start4)))
            /\ (\A j \in DOMAIN found : j > i => found[j].tag # found[i].tag)
                  => QSO[found[i].tag] = found[i].value

\* C6 witness: a specifier whose declared length exceeds the text that
\* follows it has been parsed, and its value is that text.
C6_Witness ==
    /\ pc = "parsed"
    /\ \E i \in DOMAIN found :
          /\ found[i].declared = 10
          /\ found[i].value = <<"a","b">>
          /\ QSO[found[i].tag] = <<"a","b">>

\* The text of record1 as the claim describes it, read off the specifiers
\* parse found in it: one specifier per field, tags ascending, each declared
\* length the length of the value, one space after each value, then <EOR>.
SpecifierLen(f) == Len(f.tag) + Len(str(f.declared)) + 3

RenderedInOrder ==
    /\ Len(found) = Cardinality(DOMAIN record1)
    /\ \A i \in DOMAIN found :
          /\ found[i].declared = Len(found[i].value)
          /\ found[i].value = record1[found[i].tag]
          /\ buffer[found[i].start4 + found[i].declared + 1] = " "
          /\ found[i].start4 = (IF i = 1 THEN 0
                                ELSE found[i-1].start4 + found[i-1].declared + 1)
                               + SpecifierLen(found[i])
          /\ SubSeq(buffer, found[i].start4 - SpecifierLen(found[i]) + 2,
                    found[i].start4 - Len(str(found[i].declared)) - 2) = found[i].tag
          /\ i > 1 => StrLess(found[i-1].tag, found[i].tag)
    /\ Len(buffer) = (IF found = << >> THEN 0
                      ELSE found[Len(found)].start4 + found[Len(found)].declared + 1) + 5
    /\ SubSeq(buffer, Len(buffer) - 4, Len(buffer)) = <<"<","E","O","R",">">>

ExampleRecord == (CALL :> <<"W","1","A","W">>) @@ (BAND :> <<"2","0","m">>)
ExampleText == <<"<","B","A","N","D",":","3",">","2","0","m"," ",
                 "<","C","A","L","L",":","4",">","W","1","A","W"," ",
                 "<","E","O","R",">">>

\* C7: get_adif writes the fields in ascending tag order, each as
\* <TAG:LEN>VALUE and one space, then <EOR>; parse with reset of that text
\* returns True and gives the record back; {CALL: W1AW, BAND: 20m} is
\* written as '<BAND:3>20m <CALL:4>W1AW <EOR>'.
C7_RoundTrip ==
    /\ (pc \in {"serialized", "reparsed"} /\ record1 = ExampleRecord) => buffer = ExampleText
    /\ pc = "reparsed" =>
          /\ ret = "True"
          /\ QSO = record1
          /\ RenderedInOrder

\* C7 witness: the example record has been written and read back.
C7_Witness == pc = "reparsed" /\ record1 = ExampleRecord /\ QSO = ExampleRecord


----------------------------------------------------------------------------
(* The matcher.                                                            *)

FiveFields == {CALL, BAND, MODE, QSO_DATE, TIME_ON}

ContainsFive(record) == \A f \in FiveFields : f \in DOMAIN record

\* The value under a tag, empty when the record has no such tag.
ValueOf(record, tag) == IF tag \in DOMAIN record THEN record[tag] ELSE << >>

EqualIgnoringCase(a, b) == upper(a) = upper(b)

CrossMatch(r1, r2) ==
    \/ /\ ValueOf(r1, MODE) # << >>
       /\ EqualIgnoringCase(ValueOf(r1, MODE), ValueOf(r2, SUBMODE))
    \/ /\ ValueOf(r2, MODE) # << >>
       /\ EqualIgnoringCase(ValueOf(r2, MODE), ValueOf(r1, SUBMODE))

BothPrimaryEmpty(r1, r2) == ValueOf(r1, MODE) = << >> /\ ValueOf(r2, MODE) = << >>

EitherPrimaryEmpty(r1, r2) == ValueOf(r1, MODE) = << >> \/ ValueOf(r2, MODE) = << >>

\* Equal primary modes with two submodes that differ.
SubmodesDisagree(r1, r2) ==
    /\ EqualIgnoringCase(ValueOf(r1, MODE), ValueOf(r2, MODE))
    /\ ValueOf(r1, SUBMODE) # << >> /\ ValueOf(r2, SUBMODE) # << >>
    /\ ~EqualIgnoringCase(ValueOf(r1, SUBMODE), ValueOf(r2, SUBMODE))

\* C9 as stated: the mode check is true whenever one record's primary mode
\* equals the other's submode, in either direction, unless both primary
\* modes are empty, whatever the other mode and submode values are.
C9_CrossMatchUnlessBothEmpty ==
    (pc = "modes" /\ CrossMatch(record1, record2)
                  /\ ~BothPrimaryEmpty(record1, record2)) => ret = "True"

\* C9 amended: the mode check is true whenever one record's primary mode
\* equals the other's submode, in either direction, unless either primary
\* mode is empty, or the primary modes are equal ignoring case and both
\* records have submodes that differ.
C9_CrossMatch ==
    (pc = "modes" /\ CrossMatch(record1, record2)
                  /\ ~EitherPrimaryEmpty(record1, record2)
                  /\ ~SubmodesDisagree(record1, record2)) => ret = "True"

\* Record 1 MODE=PSK, SUBMODE=PSK31 against record 2 MODE=PSK31 without a
\* submode has passed the mode check.
C9_Witness ==
    /\ pc = "modes" /\ ret = "True"
    /\ ValueOf(record1, MODE) = <<"P","S","K">>
    /\ ValueOf(record1, SUBMODE) = <<"P","S","K","3","1">>
    /\ ValueOf(record2, MODE) = <<"P","S","K","3","1">>
    /\ SUBMODE \notin DOMAIN record2

\* C10: two records whose primary modes are non-empty and equal ignoring
\* case pass the mode check whenever at least one of them has no submode,
\* and also when both have submodes that are equal ignoring case.
C10_MissingSubmodeIsWildcard ==
    (/\ pc = "modes"
     /\ ValueOf(record1, MODE) # << >>
     /\ EqualIgnoringCase(ValueOf(record1, MODE), ValueOf(record2, MODE))
     /\ \/ ValueOf(record1, SUBMODE) = << >>
        \/ ValueOf(record2, SUBMODE) = << >>
        \/ EqualIgnoringCase(ValueOf(record1, SUBMODE), ValueOf(record2, SUBMODE)))
    => ret = "True"

\* Equal primary modes, a submode on one side only, and the check passed.
C10_Witness ==
    /\ pc = "modes" /\ ret = "True"
    /\ ValueOf(record1, MODE) # << >>
    /\ EqualIgnoringCase(ValueOf(record1, MODE), ValueOf(record2, MODE))
    /\ ValueOf(record1, SUBMODE) # << >>
    /\ SUBMODE \notin DOMAIN record2


----------------------------------------------------------------------------
(* The time check.                                                         *)

\* The number written by the two digits of s at positions i and i + 1.
TwoDigits(s, i) == 10 * DigitVal(s[i]) + DigitVal(s[i + 1])

AllDigits(s) == \A i \in DOMAIN s : s[i] \in DigitSet

MonthLengths == <<31, 28, 31, 30, 31, 30, 31, 31, 30, 31, 30, 31>>

LeapYear(y) == IF y % 100 = 0 THEN y % 400 = 0 ELSE y % 4 = 0

MonthLength(y, m) == IF m = 2 /\ LeapYear(y) THEN 29 ELSE MonthLengths[m]

YearOf(d) == 100 * TwoDigits(d, 1) + TwoDigits(d, 3)

\* An 8-digit value that names a day of the calendar.
CalendarDate(d) ==
    /\ Len(d) = 8 /\ AllDigits(d)
    /\ YearOf(d) >= 1
    /\ TwoDigits(d, 5) \in 1..12
    /\ TwoDigits(d, 7) >= 1
    /\ TwoDigits(d, 7) <= MonthLength(YearOf(d), TwoDigits(d, 5))

\* A 4- or 6-digit value that names a time of the day.
ClockTime(t) ==
    /\ Len(t) \in {4, 6} /\ AllDigits(t)
    /\ TwoDigits(t, 1) <= 23 /\ TwoDigits(t, 3) <= 59
    /\ Len(t) = 6 => TwoDigits(t, 5) <= 59

\* Seconds since midnight, the seconds taken as 0 when t has 4 digits.
SecondOfDay(t) ==
    3600 * TwoDigits(t, 1) + 60 * TwoDigits(t, 3)
    + (IF Len(t) = 6 THEN TwoDigits(t, 5) ELSE 0)

Distance(a, b) == IF a < b THEN b - a ELSE a - b

DateTimed(record) ==
    /\ CalendarDate(ValueOf(record, QSO_DATE))
    /\ ClockTime(ValueOf(record, TIME_ON))

SameDate == ValueOf(record1, QSO_DATE) = ValueOf(record2, QSO_DATE)

SecondsApartSameDay ==
    Distance(SecondOfDay(ValueOf(record1, TIME_ON)), SecondOfDay(ValueOf(record2, TIME_ON)))

\* C11: for two records with the same 8-digit QSO_DATE and 4- or 6-digit
\* TIME_ON values, the time check is true if and only if the two date-times
\* are at most MaxSeconds apart: true at MaxSeconds, false at MaxSeconds + 1.
C11_TimeWithinMaxSeconds ==
    (pc = "timed" /\ SameDate /\ DateTimed(record1) /\ DateTimed(record2))
    => /\ ret \in {"True", "False"}
       /\ ret = "True" <=> SecondsApartSameDay <= MaxSeconds
       /\ SecondsApartSameDay = MaxSeconds => ret = "True"
       /\ SecondsApartSameDay = MaxSeconds + 1 => ret = "False"

\* A 4-digit and a 6-digit time exactly MaxSeconds apart have passed.
C11_Witness ==
    /\ pc = "timed" /\ SameDate /\ DateTimed(record1) /\ DateTimed(record2)
    /\ Len(ValueOf(record1, TIME_ON)) = 4 /\ Len(ValueOf(record2, TIME_ON)) = 6
    /\ SecondsApartSameDay = MaxSeconds
    /\ ret = "True"

\* Two times one second beyond MaxSeconds have been rejected.
C11_WitnessBeyond ==
    /\ pc = "timed" /\ SameDate /\ DateTimed(record1) /\ DateTimed(record2)
    /\ SecondsApartSameDay = MaxSeconds + 1
    /\ ret = "False"

\* The pair of the example: both records of 1 January 2023, at t1 and t2.
ExamplePair(t1, t2) ==
    /\ ValueOf(record1, QSO_DATE) = <<"2","0","2","3","0","1","0","1">>
    /\ ValueOf(record2, QSO_DATE) = <<"2","0","2","3","0","1","0","1">>
    /\ ValueOf(record1, TIME_ON) = t1
    /\ ValueOf(record2, TIME_ON) = t2

\* C12 as stated: records with identical call, band and mode, both of
\* 20230101, with TIME_ON 235000 and 235901 do not match, and with TIME_ON
\* 235000 and 235900 they match.
C12_BoundaryAt235000 ==
    pc = "matched" =>
        /\ ExamplePair(<<"2","3","5","0","0","0">>, <<"2","3","5","9","0","1">>) => ret = "False"
        /\ ExamplePair(<<"2","3","5","0","0","0">>, <<"2","3","5","9","0","0">>) => ret = "True"

\* C12 amended: with TIME_ON 234400 and 235901 (901 seconds apart) the
\* records do not match, with TIME_ON 234400 and 235900 (900 seconds) they
\* match.
C12_BoundaryAt234400 ==
    pc = "matched" =>
        /\ ExamplePair(<<"2","3","4","4","0","0">>, <<"2","3","5","9","0","1">>) => ret = "False"
        /\ ExamplePair(<<"2","3","4","4","0","0">>, <<"2","3","5","9","0","0">>) => ret = "True"

C12_Witness ==
    pc = "matched" /\ ExamplePair(<<"2","3","4","4","0","0">>, <<"2","3","5","9","0","1">>) /\ ret = "False"

\* Days from 1 January 2000 to the calendar date d (of 2000 or later).
RECURSIVE DaysOfYears(_)
DaysOfYears(y) ==
    IF y <= 2000 THEN 0
    ELSE DaysOfYears(y - 1) + (IF LeapYear(y - 1) THEN 366 ELSE 365)

RECURSIVE DaysOfMonths(_, _)
DaysOfMonths(y, m) ==
    IF m <= 1 THEN 0 ELSE DaysOfMonths(y, m - 1) + MonthLength(y, m - 1)

DayCount(d) == DaysOfYears(YearOf(d)) + DaysOfMonths(YearOf(d), TwoDigits(d, 5)) + TwoDigits(d, 7)

\* Seconds between the date-times of the two records.
SecondsApart ==
    Distance(86400 * (DayCount(ValueOf(record1, QSO_DATE)) - DayCount(ValueOf(record2, QSO_DATE)))
               + SecondOfDay(ValueOf(record1, TIME_ON)),
             SecondOfDay(ValueOf(record2, TIME_ON)))

\* The pair of the example: 20230101 235930 and 20230102 000030.
MidnightPair ==
    /\ record1[QSO_DATE] = <<"2","0","2","3","0","1","0","1">> /\ record1[TIME_ON] = <<"2","3","5","9","3","0">>
    /\ record2[QSO_DATE] = <<"2","0","2","3","0","1","0","2">> /\ record2[TIME_ON] = <<"0","0","0","0","3","0">>

\* C13 as stated: two records whose date-times fall on different calendar
\* days never pass the time check, even when fewer than MaxSeconds apart,
\* and so never match.
C13_DifferentDaysRejected ==
    (pc \in {"timed", "matched"} /\ ~SameDate /\ DateTimed(record1) /\ DateTimed(record2))
    => ret = "False"

\* C13 amended: two records whose date-times fall on different calendar
\* days pass the time check exactly when they are at most MaxSeconds apart
\* in absolute seconds; the pair of the example (60 seconds apart) passes
\* the time check and matches.
C13_DifferentDaysBySeconds ==
    (pc \in {"timed", "matched"} /\ ~SameDate /\ DateTimed(record1) /\ DateTimed(record2))
    => /\ ret = "True" <=> SecondsApart <= MaxSeconds
       /\ MidnightPair => ret = "True"

C13_Witness == pc = "timed" /\ MidnightPair /\ ret = "True"

----------------------------------------------------------------------------
(* The merger.                                                             *)

\* Both records have the five fields and match accepts the pair.
ViableMatchingPair ==
    /\ ContainsFive(record1) /\ ContainsFive(record2)
    /\ match(record1, record2) = "True"

\* The fields of the source that the destination lacks.
SourceOnly == (DOMAIN record1) \ (DOMAIN record2)

\* C14: merge(source, destination, overwrite = false) on a viable, matching
\* pair: every field of the destination keeps its value, every source field
\* absent from the destination is added with the source's value, no other
\* field appears, and modified is true exactly when a field was added.
C14_MergeAddsMissingFields ==
    (pc = "merged" /\ ~update_fields /\ ViableMatchingPair) =>
        /\ DOMAIN merged_record = (DOMAIN record1) \cup (DOMAIN record2)
        /\ \A f \in DOMAIN record2 : merged_record[f] = record2[f]
        /\ \A f \in SourceOnly : merged_record[f] = record1[f]
        /\ ret = "True" <=> SourceOnly # {}

\* The example: NOTES "old" kept against "new", RST_SENT "599" added.
C14_Witness ==
    /\ pc = "merged" /\ ~update_fields /\ ViableMatchingPair
    /\ ValueOf(record1, NOTES) = <<"n","e","w">> /\ ValueOf(record2, NOTES) = <<"o","l","d">>
    /\ ValueOf(record1, RST_SENT) = <<"5","9","9">> /\ RST_SENT \notin DOMAIN record2
    /\ ValueOf(merged_record, NOTES) = <<"o","l","d">>
    /\ ValueOf(merged_record, RST_SENT) = <<"5","9","9">>
    /\ ret = "True"

\* C15: merge(source, destination, overwrite = true) on a viable, matching
\* pair: the result has every source field with the source's value, every
\* destination-only field with its original value, and no other field;
\* modified is true exactly when the result differs from the destination
\* as it was before the call.
C15_MergeOverwrites ==
    (pc = "merged" /\ update_fields /\ ViableMatchingPair) =>
        /\ DOMAIN merged_record = (DOMAIN record1) \cup (DOMAIN record2)
        /\ \A f \in DOMAIN record1 : merged_record[f] = record1[f]
        /\ \A f \in (DOMAIN record2) \ (DOMAIN record1) : merged_record[f] = record2[f]
        /\ ret = "True" <=> merged_record # record2

\* A value of the destination was overwritten and a field only the
\* destination has was kept.
C15_Witness ==
    /\ pc = "merged" /\ update_fields /\ ViableMatchingPair
    /\ ValueOf(record1, NOTES) = <<"n","e","w">> /\ ValueOf(record2, NOTES) = <<"o","l","d">>
    /\ ValueOf(merged_record, NOTES) = <<"n","e","w">>
    /\ QTH \in DOMAIN merged_record /\ QTH \notin DOMAIN record1
    /\ ret = "True"

\* C16: merge returns (false, {}) whenever either input lacks one of the
\* five fields or match rejects the pair, and the destination is then as
\* it was passed (the source is never written).
C16_MergeRejects ==
    (/\ pc = "merged"
     /\ \/ ~ContainsFive(record1) \/ ~ContainsFive(record2)
        \/ match(record1, record2) = "False")
    => /\ ret = "False"
       /\ merged_record = EmptyRecord
       /\ into_record = record2

\* A source with fields the destination lacks was rejected by match.
C16_Witness ==
    /\ pc = "merged"
    /\ ContainsFive(record1) /\ ContainsFive(record2)
    /\ match(record1, record2) = "False"
    /\ SourceOnly # {}
    /\ ret = "False" /\ merged_record = EmptyRecord /\ into_record = record2

\* C17: match and merge never raise: for every pair of records, also when
\* the QSO_DATE or TIME_ON of a record that has the five fields is empty,
\* too short, not numeric or out of calendar range, match returns a boolean
\* and merge returns a (modified, record) pair.
C17_NeverRaises ==
    pc \in {"matched", "merged"} => ret \in {"True", "False"}

----------------------------------------------------------------------------
(* The pending buffer of the reader.                                       *)

\* The lines the last next_record call read, as it appends them.
LinesRead ==
    ReplaceNewlines(make_utf8(Flatten(SubSeq(stream, fpos - last.reads + 1, fpos))))

\* The buffer the last call accumulated: what was pending when it was
\* called, and the lines it read.
Accumulated == last.entry \o LinesRead

\* rest is the text that follows an <EOR> marker of text.
FollowsEor(text, rest) ==
    \E i \in 1..Len(text) :
        /\ MarkerAt(text, i, <<"E","O","R">>)
        /\ rest = SliceFrom(text, i + 4)

\* C18: whenever next_record returns true, the pending buffer afterwards is
\* exactly the text that followed the consumed <EOR> marker in the
\* accumulated buffer: all text after the marker is kept for the next call.
C18_PendingIsTextAfterEor ==
    (last.called /\ ret = "True") => FollowsEor(Accumulated, line)

\* C19: if the pending buffer already contains an <EOR> marker when
\* next_record is called, that call returns true and reads no chunk from
\* the stream.
C19_PendingEorReturnsAtOnce ==
    (last.called /\ adif_eor_re(last.entry).found)
    => (ret = "True" /\ last.reads = 0)

----------------------------------------------------------------------------
(* Termination.                                                            *)

\* A step of __next__ (the position of the program stays, __iter__ moves
\* it) either signals the end of the sequence and leaves no file object,
\* or yields a record and then has read a line of the stream or, having
\* read none, has shortened the pending buffer.
StepEndsOrConsumes ==
    pc' = pc =>
        \/ outcome' = "stop" /\ fileobj' = "None"
        \/ /\ outcome' = "yield" /\ fileobj' = "open"
           /\ \/ fpos' > fpos
              \/ fpos' = fpos /\ Len(line') < Len(line)

\* No call reads more lines than the stream has left.
ReadsWithinStream == fpos \in 0..Len(stream) /\ last.reads \in 0..Len(stream)

\* C20: for every finite stream every next_record call ends, having read
\* no more than the lines of the stream, and repeated iterator steps signal
\* the end of the sequence after finitely many records: every step that
\* does not signal the end yields a record and consumes text of the stream
\* or of the pending buffer, of which there is a finite amount.
C20_IterationEnds ==
    /\ []ReadsWithinStream
    /\ [][StepEndsOrConsumes]_vars

\* The end of the sequence was signalled after a record had been yielded.
C20_Witness == outcome = "stop" /\ fileobj = "None" /\ nTrue > 0 /\ last.reads > 0

\* C20 (parse): each specifier parse finds lies beyond the value of the one
\* before it, so the text still to scan gets strictly shorter.
C20_ParseShortensBuffer ==
    \A i \in DOMAIN found :
        /\ found[i].start4 > 0
        /\ found[i].start4 <= Len(buffer)
        /\ i > 1 => found[i].start4 > found[i - 1].start4 + Len(found[i - 1].value)

====
